---- MODULE Spec2Model ----
(***************************************************************************)
(* A model of mpttmenu.processors.MenuProcessor: the resolution of the     *)
(* current object and of its menu node at construction, and get_nodes with *)
(* its per-resolver cache.                                                 *)
(*                                                                         *)
(* The MenuNode table is a forest.  Rows are numbered in tree order (the   *)
(* order of MenuNode.tree, i.e. tree_id then lft), so a queryset is the    *)
(* sequence of the ids it selects, in increasing order.                    *)
(***************************************************************************)
EXTENDS Integers, Sequences, FiniteSets

\* ------------------------------------------------------------- bounds
MaxNodes == 3        \* rows of the MenuNode table: 0..MaxNodes
MaxLevel == 1        \* level_min, level_max passed explicitly: 0..MaxLevel
MaxCalls == 2        \* calls of get_nodes on one resolver

\* ---------------------------------------------------------- constants
MENU_MAX_LEVEL == 64

VARIABLES
    table,          \* the MenuNode rows, in tree order
    strategy,       \* which method determine_tree is (the class's override)
    pc,             \* "init": not constructed, "ready": constructed, "raised"
    error,          \* the exception __init__ raised, "none" if none
    kwargs,         \* the keyword arguments given to __init__
    self,           \* the resolver's fields
    events,         \* what construction consulted (context, path, scan, lookups)
    calls           \* one record per get_nodes call, oldest first

vars == <<table, strategy, pc, error, kwargs, self, events, calls>>

\* --------------------------------------------------------------- values
\* Python's None, as a subject (self.object) ...
None == [cls |-> "None", id |-> 0]
\* ... and as a node (self.node, a root's parent).
NoNode == 0

MaxId == (MaxNodes + 1) \div 2
Classes == {"Page", "Article"}
Subjects == [cls : Classes, id : 1..MaxId]
\* request paths; path 0 is the URL of no subject
Paths == 0..MaxId

\* bool(x) of a subject or None: model instances are truthy
Truthy(o) == o # None

\* hasattr(obj, 'menu_node'): class Page declares the GenericRelation
hasattr_menu_node(o) == o.cls = "Page"

\* obj.get_absolute_url(): both classes route by id, so a Page and an
\* Article of the same id share one URL
get_absolute_url(o) == o.id

\* --------------------------------------------------------- the forest
RECURSIVE AncestorsOrSelf(_, _)
AncestorsOrSelf(p, i) ==
    IF i = 0 THEN {} ELSE {i} \cup AncestorsOrSelf(p, p[i])

\* parent vectors of n rows numbered in tree order (pre-order): a row's
\* parent is None or a row on the path from the previous row to its root
Forests(n) ==
    { p \in [1..n -> 0..n] :
        /\ \A i \in 1..n : p[i] < i
        /\ \A i \in 2..n : p[i] = 0 \/ p[i] \in AncestorsOrSelf(p, i - 1) }

RECURSIVE Depth(_, _)
Depth(p, i) == IF p[i] = 0 THEN 0 ELSE 1 + Depth(p, p[i])

\* the subject row i points to (content_type, object_id)
DefaultContent(i) ==
    [cls |-> IF i % 2 = 1 THEN "Page" ELSE "Article", id |-> (i + 1) \div 2]

\* the default, and the tables where the last row points to the subject
\* of an earlier row k too: two rows for one (content type, object id)
Contents(n) ==
    { [i \in 1..n |-> DefaultContent(i)] } \cup
    { [i \in 1..n |-> IF i = n THEN DefaultContent(k) ELSE DefaultContent(i)]
        : k \in 1..(n - 1) }

Row(p, c, i) ==
    [parent |-> p[i], level |-> Depth(p, i),
     content_type |-> c[i].cls, object_id |-> c[i].id]

Tables ==
    UNION { { [i \in 1..n |-> Row(p, c, i)] : p \in Forests(n), c \in Contents(n) }
            : n \in 0..MaxNodes }

\* node.content_object
content_object(t, n) == [cls |-> t[n].content_type, id |-> t[n].object_id]

\* --------------------------------------------------------- querysets
\* the rows of t whose ids are in S, in tree order
Rows(t, S) ==
    LET Keep(m) == m \in S IN SelectSeq([i \in 1..Len(t) |-> i], Keep)

Range(q) == { q[i] : i \in 1..Len(q) }

\* queryset.filter(level__range=[lo, hi]): SQL BETWEEN, both ends included
LevelRangeExclusive(t, q, lo, hi) ==
    LET Keep(n) == lo <= t[n].level /\ t[n].level < hi IN SelectSeq(q, Keep)

LevelRangeFilter(t, q, lo, hi) ==
    LET Keep(n) == lo <= t[n].level /\ t[n].level <= hi IN SelectSeq(q, Keep)

\* node.get_root()
RECURSIVE get_root(_, _)
get_root(t, n) == IF t[n].parent = NoNode THEN n ELSE get_root(t, t[n].parent)

RECURSIVE IsAncestor(_, _, _)
\* a is a proper ancestor of n
IsAncestor(t, a, n) ==
    /\ t[n].parent # NoNode
    /\ (t[n].parent = a \/ IsAncestor(t, a, t[n].parent))

\* node.get_descendants(include_self)
get_descendants(t, n, include_self) ==
    Rows(t, { m \in 1..Len(t) : IsAncestor(t, n, m) \/ (include_self /\ m = n) })

\* node.get_ancestors(): root first
get_ancestors(t, n) ==
    Rows(t, { m \in 1..Len(t) : IsAncestor(t, m, n) })

\* ------------------------------------------- the convenient methods
\* A method's outcome: the queryset it returns, or raised = TRUE when it
\* raises AttributeError (an attribute read on self.node = None).
Returns(q) == [raised |-> FALSE, nodes |-> q]
AttributeError == [raised |-> TRUE, nodes |-> <<>>]

\* MenuNode.tree.all()
_get_all_nodes(t, n) ==
    Returns(Rows(t, { m \in 1..Len(t) : TRUE }))

\* MenuNode.tree.root_nodes()
_get_root_nodes(t, n) ==
    Returns(Rows(t, { m \in 1..Len(t) : t[m].parent = NoNode }))

\* self.node.get_descendants(include_self=True): the root left out
BranchWithoutRoot(t, n) ==
    IF n = NoNode THEN AttributeError
    ELSE Returns(get_descendants(t, get_root(t, n), FALSE))

\* self.node.get_root().get_descendants(include_self=True)
_get_branch_nodes(t, n) ==
    IF n = NoNode THEN AttributeError
    ELSE Returns(get_descendants(t, get_root(t, n), TRUE))

\* filter(Q(level=0) | Q(id__in=self.node.get_root().get_descendants()...))
_get_root_and_branch_nodes(t, n) ==
    IF n = NoNode THEN AttributeError
    ELSE LET ids == Range(get_descendants(t, get_root(t, n), FALSE))
         IN Returns(Rows(t, { m \in 1..Len(t) : t[m].level = 0 \/ m \in ids }))

\* filter(Q(level=0) | Q(parent=self.node)): the children, not the siblings
RootAndOwnChildren(t, n) ==
    IF n = NoNode THEN AttributeError
    ELSE Returns(Rows(t, { m \in 1..Len(t) : t[m].level = 0 \/ t[m].parent = n }))

\* filter(Q(level=0) | Q(parent=self.node.parent)); self.node.parent is an
\* attribute read, and Q(parent=None) selects the rows whose parent is NULL
_get_root_and_sibblings_nodes(t, n) ==
    IF n = NoNode THEN AttributeError
    ELSE Returns(Rows(t, { m \in 1..Len(t) : t[m].level = 0 \/ t[m].parent = t[n].parent }))

\* filter(Q(level=0) | Q(parent=self.node)): self.node is passed, no
\* attribute of it is read, so None raises nothing and selects parent IS NULL
_get_root_and_children_nodes(t, n) ==
    Returns(Rows(t, { m \in 1..Len(t) : t[m].level = 0 \/ t[m].parent = n }))

\* self.node.children.all()
_get_children_nodes(t, n) ==
    IF n = NoNode THEN AttributeError
    ELSE Returns(Rows(t, { m \in 1..Len(t) : t[m].parent = n }))

\* self.node.get_ancestors()
_get_ancestors_nodes(t, n) ==
    IF n = NoNode THEN AttributeError ELSE Returns(get_ancestors(t, n))

\* self.node.get_descendants()
_get_descendants_nodes(t, n) ==
    IF n = NoNode THEN AttributeError ELSE Returns(get_descendants(t, n, FALSE))

\* the strategies that read self.node
NodeStrategies ==
    {"branch", "root_and_branch", "root_and_sibblings", "root_and_children",
     "children", "ancestors", "descendants"}

Strategies == {"all", "root"} \cup NodeStrategies

\* determine_tree: the default returns _get_all_nodes(); a subclass
\* overrides it to return one of the other convenient methods
determine_tree(st, t, n) ==
    CASE st = "all" -> _get_all_nodes(t, n)
      [] st = "root" -> _get_root_nodes(t, n)
      [] st = "branch" -> _get_branch_nodes(t, n)
      [] st = "root_and_branch" -> _get_root_and_branch_nodes(t, n)
      [] st = "root_and_sibblings" -> _get_root_and_sibblings_nodes(t, n)
      [] st = "root_and_children" -> _get_root_and_children_nodes(t, n)
      [] st = "children" -> _get_children_nodes(t, n)
      [] st = "ancestors" -> _get_ancestors_nodes(t, n)
      [] st = "descendants" -> _get_descendants_nodes(t, n)

get_default_tree(t, n) == _get_all_nodes(t, n)

\* ------------------------------------------------------- the cache
\* MenuCache (mpttmenu.utils): a mapping keyed by the current object; a
\* lookup of a key never stored gives None instead of raising
MenuCache == [k \in {} |-> <<>>]

cache_getitem(c, k) ==
    IF k \in DOMAIN c THEN [nodes |-> c[k], found |-> TRUE]
    ELSE [nodes |-> <<>>, found |-> FALSE]

cache_setitem(c, k, v) ==
    [x \in DOMAIN c \cup {k} |-> IF x = k THEN v ELSE c[x]]

\* 'not nodes': None, and an empty queryset too
IsFalsy(r) == ~r.found \/ r.nodes = <<>>

\* ------------------------------------------------------- get_nodes
\* One call. The outcome carries the updated resolver and what the call
\* did: hit (the cached value was returned), determined (determine_tree
\* was invoked), fallback (get_default_tree was invoked after an
\* AttributeError), stored (a cache entry was written), candidates (the
\* unfiltered queryset the filter was applied to) and returned.
get_nodes(s, t, st) ==
    LET cached == cache_getitem(s.cache, s.object)
    IN IF ~IsFalsy(cached)
       THEN [self |-> s, hit |-> TRUE, determined |-> FALSE, fallback |-> FALSE,
             stored |-> FALSE, candidates |-> <<>>, returned |-> cached.nodes]
       ELSE LET tried == determine_tree(st, t, s.node)
                chosen == IF tried.raised THEN get_default_tree(t, s.node) ELSE tried
                nodes == LevelRangeFilter(t, chosen.nodes, s.level_min, s.level_max)
            IN [self |-> [s EXCEPT !.cache = cache_setitem(s.cache, s.object, nodes)],
                hit |-> FALSE, determined |-> TRUE, fallback |-> tried.raised,
                stored |-> TRUE, candidates |-> chosen.nodes, returned |-> nodes]

\* ---------------------------------------------------- the context
\* The template context: 'object' (None when the key is absent, as
\* context.get('object', None) gives), 'view' ("absent": no such key,
\* "norequest": a view without a request attribute, "request": a view
\* whose request.path is view_path) and 'request_path' (a key that is
\* there or not).
Context(o, v, vp, has_rp, rp) ==
    [object |-> o, view |-> v, view_path |-> vp,
     has_request_path |-> has_rp, request_path |-> rp]

EmptyContext == Context(None, "absent", 0, FALSE, 0)

Contexts ==
    { Context(o, "absent", 0, FALSE, 0) : o \in Subjects \cup {None} } \cup
    { Context(o, "request", p, FALSE, 0) : o \in Subjects \cup {None}, p \in Paths } \cup
    { Context(None, v, 0, TRUE, p) : v \in {"absent", "norequest"}, p \in Paths } \cup
    { Context(None, "norequest", 0, FALSE, 0) }

\* kwargs: whether 'object' is among the keywords, and its value
Kwargs(has, o) == [object |-> o, has_object |-> has]

AllKwargs == { Kwargs(FALSE, None) } \cup { Kwargs(TRUE, o) : o \in Subjects \cup {None} }

\* lines 39-43: context['view'].request.path, and on KeyError or
\* AttributeError context['request_path'], whose KeyError is not caught
request_path_of(c) ==
    IF c.view = "request" THEN [raised |-> "none", path |-> c.view_path]
    ELSE IF c.has_request_path THEN [raised |-> "none", path |-> c.request_path]
    ELSE [raised |-> "KeyError", path |-> 0]

\* line 45: the nodes whose content object's URL is the path, in the
\* order of MenuNode.tree.all()
nodes_at_path(t, path) ==
    Rows(t, { m \in 1..Len(t) : get_absolute_url(content_object(t, m)) = path })

\* ------------------------------------------------- construction
\* A step's outcome: the resolver's fields, the exception raised ("none"
\* if none) and what the step consulted.
Outcome(s, e, ev) == [self |-> s, events |-> ev, raised |-> e]

\* lines 36-48, the body under 'if not self.object_passed'
detect_from_context(s, t) ==
    LET obj == IF Truthy(s.object) THEN s.object ELSE s.context.object
        s1 == [s EXCEPT !.object = obj]
        ev1 == IF Truthy(s.object) THEN {} ELSE {"context_object"}
    IN IF Truthy(obj) THEN Outcome(s1, "none", ev1)
       ELSE
         LET got == request_path_of(s.context)
             ev2 == ev1 \cup {"request_path"}
         IN IF got.raised # "none" THEN Outcome(s1, got.raised, ev2)
            ELSE
              LET l == nodes_at_path(t, got.path)
                  ev3 == ev2 \cup {"scan"}
              IN IF l = <<>> THEN Outcome(s1, "none", ev3)
                 \* line 47 sets self.node; line 48 then reads
                 \* self.object.content_object with self.object falsy
                 \* (None): AttributeError
                 ELSE Outcome([s1 EXCEPT !.node = l[1]], "AttributeError", ev3)

\* the guard 'if not self.object' in place of 'if not self.object_passed'
determine_object_unless_truthy(s, t) ==
    IF Truthy(s.object) THEN Outcome(s, "none", {}) ELSE detect_from_context(s, t)

determine_object_from_context(s, t) ==
    IF s.object_passed THEN Outcome(s, "none", {}) ELSE detect_from_context(s, t)

\* queryset.get() over the matching rows, the first match taken when
\* there are several
get_first(q) ==
    IF q = <<>> THEN [raised |-> "DoesNotExist", node |-> NoNode]
    ELSE [raised |-> "none", node |-> q[1]]

\* queryset.get() over the matching rows, None when there is none
get_or_none(q) ==
    IF q = <<>> THEN [raised |-> "none", node |-> NoNode]
    ELSE IF Len(q) > 1 THEN [raised |-> "MultipleObjectsReturned", node |-> NoNode]
    ELSE [raised |-> "none", node |-> q[1]]

\* queryset.get(): exactly one row, or DoesNotExist / MultipleObjectsReturned
queryset_get(q) ==
    IF q = <<>> THEN [raised |-> "DoesNotExist", node |-> NoNode]
    ELSE IF Len(q) > 1 THEN [raised |-> "MultipleObjectsReturned", node |-> NoNode]
    ELSE [raised |-> "none", node |-> q[1]]

\* the rows of (content type of o's class, o.id): what both
\* o.menu_node (the GenericRelation) and the keyed lookup select
nodes_of(t, o) ==
    Rows(t, { m \in 1..Len(t) : t[m].content_type = o.cls /\ t[m].object_id = o.id })

determine_node_from_object(s, t) ==
    IF s.node # NoNode \/ ~Truthy(s.object) THEN Outcome(s, "none", {})
    ELSE
      LET got == queryset_get(nodes_of(t, s.object))
          ev == IF hasattr_menu_node(s.object) THEN {"relation_get"} ELSE {"tree_get"}
      IN IF got.raised # "none" THEN Outcome(s, got.raised, ev)
         ELSE Outcome([s EXCEPT !.node = got.node], "none", ev)

\* __init__
MenuProcessor(context, level_min, level_max, kw, t) ==
    LET s0 == [cache |-> MenuCache, object |-> kw.object, node |-> NoNode,
               level_min |-> level_min, level_max |-> level_max,
               context |-> context, object_passed |-> kw.has_object]
        r1 == determine_object_from_context(s0, t)
        r2 == determine_node_from_object(r1.self, t)
    IN IF r1.raised # "none" THEN r1
       ELSE Outcome(r2.self, r2.raised, r1.events \cup r2.events)

\* ------------------------------------------------------- the machine
NoResolver ==
    [cache |-> MenuCache, object |-> None, node |-> NoNode,
     level_min |-> 0, level_max |-> MENU_MAX_LEVEL,
     context |-> EmptyContext, object_passed |-> FALSE]

Init ==
    /\ table \in Tables
    /\ strategy \in Strategies
    /\ pc = "init"
    /\ error = "none"
    /\ kwargs = Kwargs(FALSE, None)
    /\ self = NoResolver
    /\ events = {}
    /\ calls = <<>>

Construct(context, level_min, level_max, kw) ==
    /\ pc = "init"
    /\ LET r == MenuProcessor(context, level_min, level_max, kw, table)
       IN /\ self' = r.self
          /\ error' = r.raised
          /\ events' = r.events
          /\ pc' = IF r.raised = "none" THEN "ready" ELSE "raised"
    /\ kwargs' = kw
    /\ UNCHANGED <<table, strategy, calls>>

\* MenuProcessor(context, level_min, level_max, object=o)
ConstructWithWindow ==
    \E o \in Subjects \cup {None}, lo \in 0..MaxLevel,
       hi \in (0..MaxLevel) \cup {MENU_MAX_LEVEL} :
        Construct(EmptyContext, lo, hi, Kwargs(TRUE, o))

\* MenuProcessor(context) and MenuProcessor(context, object=o): the
\* default window
ConstructDefault ==
    \E c \in Contexts, kw \in AllKwargs :
        Construct(c, 0, MENU_MAX_LEVEL, kw)

GetNodes ==
    /\ pc = "ready"
    /\ Len(calls) < MaxCalls
    /\ LET r == get_nodes(self, table, strategy)
       IN /\ self' = r.self
          /\ calls' = Append(calls, [hit |-> r.hit, determined |-> r.determined,
                                     fallback |-> r.fallback, stored |-> r.stored,
                                     candidates |-> r.candidates,
                                     returned |-> r.returned])
    /\ UNCHANGED <<table, strategy, pc, error, kwargs, events>>

Next == ConstructWithWindow \/ ConstructDefault \/ GetNodes

Spec == Init /\ [][Next]_vars

\* ------------------------------------------------------- properties
Ids == 1..Len(table)

InWindow(n) == self.level_min <= table[n].level /\ table[n].level <= self.level_max

NoDuplicates(q) == Cardinality(Range(q)) = Len(q)

\* a row's depth, by its chain of parents
RECURSIVE NodeDepth(_)
NodeDepth(n) == IF table[n].parent = NoNode THEN 0 ELSE 1 + NodeDepth(table[n].parent)

\* the row itself and the rows above it
RECURSIVE Chain(_)
Chain(n) == IF n = NoNode THEN {} ELSE {n} \cup Chain(table[n].parent)

\* the whole table filtered to the resolver's window, in tree order
DefaultResult == SelectSeq([i \in Ids |-> i], InWindow)

\* the call at or before call i that computed the sequence call i returns
Computing(i) ==
    CHOOSE j \in 1..i :
        calls[j].determined /\ \A k \in (j + 1)..i : ~calls[k].determined

LookupEvents == {"relation_get", "tree_get"}
DetectionEvents == {"context_object", "request_path", "scan"}

\* C1: every node get_nodes returns, on the first call and on every later
\* one, has level_min <= level <= level_max, and every node of the
\* candidate sequence whose level is inside the window is returned.
C1_DepthWindow ==
    \A i \in 1..Len(calls) :
        /\ \A n \in Range(calls[i].returned) :
               self.level_min <= NodeDepth(n) /\ NodeDepth(n) <= self.level_max
        /\ \A n \in Range(calls[Computing(i)].candidates) :
               (self.level_min <= NodeDepth(n) /\ NodeDepth(n) <= self.level_max)
                   => n \in Range(calls[i].returned)

\* a second call that is a cache hit, on a resolved node, whose result
\* keeps some candidates (one at level_max) and drops others
C1_Witness ==
    /\ Len(calls) = 2 /\ calls[2].hit
    /\ self.node # NoNode
    /\ \E n \in Range(calls[2].returned) : NodeDepth(n) = self.level_max
    /\ \E n \in Range(calls[1].candidates) : n \notin Range(calls[2].returned)

\* C2 (as claimed): with no node resolved, whichever strategy that uses
\* the node is determine_tree, get_nodes returns exactly the default
\* strategy's result, the whole table filtered to the window (the claim's
\* observable conclusion: the AttributeError it names is how the code is
\* to get there).
C2_FallbackForEveryNodeStrategy ==
    (pc = "ready" /\ self.node = NoNode /\ strategy \in NodeStrategies) =>
        \A i \in 1..Len(calls) : calls[i].returned = DefaultResult

\* C3 (as claimed): for a subject with exactly one node, the second call
\* is a cache hit returning the first call's sequence, without invoking
\* determine_tree again or storing again, an empty sequence included.
C3_SecondCallIsHit ==
    (Len(calls) >= 2 /\ self.object # None /\ Len(nodes_of(table, self.object)) = 1) =>
        /\ calls[2].hit
        /\ ~calls[2].determined
        /\ ~calls[2].stored
        /\ calls[2].returned = calls[1].returned

\* C4: with 'object' among the keywords, whatever its value, construction
\* consults neither the context's 'object' nor a request path nor the
\* table's rows, and the resolver's subject is the value supplied.
C4_ExplicitOverride ==
    (pc # "init" /\ kwargs.has_object) =>
        /\ events \cap DetectionEvents = {}
        /\ self.object = kwargs.object

\* constructed with object=None while the context holds an object
C4_Witness ==
    /\ pc = "ready"
    /\ kwargs.has_object /\ kwargs.object = None
    /\ self.context.object # None

\* C5 (as claimed): with no subject passed or in the context and no
\* request path under either convention, construction completes with the
\* subject and the node unresolved, and get_nodes returns the default tree.
C5_NoPathNeverRaises ==
    (/\ pc # "init"
     /\ ~kwargs.has_object
     /\ self.context.object = None
     /\ self.context.view # "request"
     /\ ~self.context.has_request_path) =>
        /\ pc = "ready" /\ error = "none"
        /\ self.object = None /\ self.node = NoNode
        /\ \A i \in 1..Len(calls) : calls[i].returned = DefaultResult

\* C6 (as claimed): a resolved subject without a node raises nothing;
\* the resolver is constructed and get_nodes returns the default tree.
C6_MissingNodeDegrades ==
    (pc # "init" /\ self.object # None /\ nodes_of(table, self.object) = <<>>) =>
        /\ pc = "ready" /\ error = "none"
        /\ \A i \in 1..Len(calls) : calls[i].returned = DefaultResult

\* C6 (amended): a resolved subject without a node makes construction
\* raise DoesNotExist, so no resolver exists and get_nodes is never
\* called; get_nodes falls back to the default tree only on a resolver
\* whose subject and node are both unresolved, and then returns the whole
\* table filtered to the window.
C6_MissingNodeRaises ==
    /\ (pc # "init" /\ self.object # None /\ nodes_of(table, self.object) = <<>>) =>
           (pc = "raised" /\ error = "DoesNotExist" /\ calls = <<>>)
    /\ \A i \in 1..Len(calls) :
           calls[i].fallback =>
               /\ self.object = None /\ self.node = NoNode
               /\ calls[i].returned = DefaultResult

\* a subject found in the context, with no row: DoesNotExist
C6_Witness ==
    /\ pc = "raised" /\ error = "DoesNotExist"
    /\ ~kwargs.has_object
    /\ self.object # None /\ self.object = self.context.object
    /\ nodes_of(table, self.object) = <<>>
    /\ table # <<>>

\* C7: a lookup is made only with a subject resolved and no node found by
\* the scan; zero rows or several rows for the subject raise at
\* construction (DoesNotExist, MultipleObjectsReturned), by the relation
\* and by the keyed lookup alike, and leave no resolver; exactly one row
\* becomes the resolver's node.
C7_NodeResolution ==
    LET q == nodes_of(table, self.object)
        looked == events \cap LookupEvents # {}
    IN /\ looked => (self.object # None /\ "scan" \notin events)
       /\ (pc # "init" /\ error \notin {"KeyError", "AttributeError"}) =>
           /\ looked <=> self.object # None
           /\ looked =>
                events \cap LookupEvents =
                    IF hasattr_menu_node(self.object) THEN {"relation_get"}
                    ELSE {"tree_get"}
           /\ (self.object # None /\ Len(q) = 0) =>
                (pc = "raised" /\ error = "DoesNotExist" /\ calls = <<>>)
           /\ Len(q) > 1 =>
                (pc = "raised" /\ error = "MultipleObjectsReturned" /\ calls = <<>>)
           /\ Len(q) = 1 => (pc = "ready" /\ self.node = q[1])
           /\ self.object = None => (pc = "ready" /\ self.node = NoNode)

\* two rows for one subject, found by the keyed lookup
C7_Witness ==
    /\ pc = "raised" /\ error = "MultipleObjectsReturned"
    /\ "tree_get" \in events
    /\ Len(nodes_of(table, self.object)) = 2

\* C8 (as claimed): with no subject passed or in the context and a request
\* path that is the URL of some row's subject, construction completes with
\* the node the first such row, the subject that row's subject, and no
\* lookup made.
C8_FirstPathMatchWins ==
    LET got == request_path_of(self.context)
    IN (/\ pc # "init"
        /\ ~kwargs.has_object
        /\ self.context.object = None
        /\ got.raised = "none"
        /\ nodes_at_path(table, got.path) # <<>>) =>
           /\ pc = "ready" /\ error = "none"
           /\ self.node = nodes_at_path(table, got.path)[1]
           /\ self.object = content_object(table, self.node)
           /\ events \cap LookupEvents = {}

\* C9: with a node resolved, "root + siblings" selects exactly the rows of
\* depth 0 and the rows whose parent is the node's parent, the node among
\* them, each once.
C9_RootAndSiblings ==
    (strategy = "root_and_sibblings" /\ self.node # NoNode) =>
        \A i \in 1..Len(calls) :
            calls[i].determined =>
                LET c == calls[i].candidates
                IN /\ Range(c) =
                        { m \in Ids : NodeDepth(m) = 0
                                        \/ table[m].parent = table[self.node].parent }
                   /\ NoDuplicates(c)
                   /\ ~calls[i].fallback

\* a node below the root, returned with the root, and a row that is
\* neither a root nor a sibling left out
C9_Witness ==
    /\ strategy = "root_and_sibblings"
    /\ self.node # NoNode /\ table[self.node].parent # NoNode
    /\ Len(calls) >= 1
    /\ self.node \in Range(calls[1].candidates)
    /\ \E m \in Range(calls[1].candidates) : table[m].parent = NoNode
    /\ \E m \in Ids : m \notin Range(calls[1].candidates)

\* C10: with a node resolved, "branch" selects exactly the rows of the
\* node's tree (its root and the node included) and none of another tree,
\* and "root + branch" exactly those and the roots of the other trees.
C10_Branch ==
    self.node # NoNode =>
        \A i \in 1..Len(calls) :
            calls[i].determined =>
                LET c == calls[i].candidates
                    tree == { m \in Ids : Chain(m) \cap Chain(self.node) # {} }
                    roots == { m \in Ids : table[m].parent = NoNode }
                IN /\ strategy = "branch" =>
                        (Range(c) = tree /\ NoDuplicates(c) /\ ~calls[i].fallback)
                   /\ strategy = "root_and_branch" =>
                        (Range(c) = tree \cup roots /\ NoDuplicates(c)
                            /\ ~calls[i].fallback)

\* a forest of two trees, the node below its root, the other tree left out
C10_Witness ==
    /\ strategy = "branch"
    /\ self.node # NoNode /\ table[self.node].parent # NoNode
    /\ Len(calls) >= 1
    /\ \E m \in Ids : m \notin Range(calls[1].candidates)
    /\ self.node \in Range(calls[1].candidates)

====
